---- MODULE Spec2Model ----
(***************************************************************************)
(* Model of emc_export_app.py: one Streamlit page render of the EMC Export *)
(* Opportunity Finder.  The script runs top to bottom: inputs, the buyer   *)
(* source at module level, then the workflow (scrape, markets, distributor *)
(* lookups, report, download link).                                        *)
(*                                                                         *)
(* Data representation.                                                    *)
(*   - a Python str is a TLA+ string; concatenation is \o, len is Len;     *)
(*   - a Python dict is a function whose domain is its set of keys;        *)
(*   - an optional value (None or a value) is a sequence of length 0 or 1; *)
(*   - a pandas DataFrame is [columns |-> sequence of column names,        *)
(*     rows |-> sequence of dicts]; pd.DataFrame() has no column, no row;  *)
(*   - a multi-line str (the report) is the sequence of its lines, i.e.    *)
(*     the str split at "\n".                                              *)
(***************************************************************************)
EXTENDS Integers, Sequences, FiniteSets, TLC

VARIABLES
    pc,                  \* position of the render in the script
    brand_url,           \* st.text_input, line 16
    product_keywords,    \* st.text_input, line 17
    uploaded_file,       \* st.file_uploader, line 56: <<>> (None) or <<file>>
    web,                 \* what requests.get(brand_url) met: <<>> before the request
    trade,               \* what the trade-data request met: <<>> before the request
    site_info,           \* result of scrape_site: <<>> before, <<dict>> after
    market_df,           \* result of suggest_markets: <<>> before, <<DataFrame>> after
    buyer_df,            \* module-level buyer_df, always a DataFrame
    distributor_df_list, \* the list built on line 147
    distributors_df,     \* line 148: <<>> before, <<DataFrame>> after
    report_md,           \* result of create_report: <<>> before, <<lines>> after
    dl_link,             \* result of download_link: <<>> before, <<link>> after
    page,                \* what the render has put on the page, in order
    trace                \* the operations executed in this render, in order

vars == <<pc, brand_url, product_keywords, uploaded_file, web, trade, site_info,
          market_df, buyer_df, distributor_df_list, distributors_df, report_md,
          dl_link, page, trace>>

----------------------------------------------------------------------------
(* Bounds of the model. *)

\* scrape_site alone is given every sequence of at most MaxNodes heading
\* elements, followed by at most MaxFill further long headings
MaxNodes == 8
MaxFill == 6
\* longest 'data' list of a trade-data response given to suggest_markets alone
MaxItems == 6
\* longest 'data' list of a trade-data response inside a whole page render
MaxRenderItems == 2
\* longest sequence of find_trusted_distributors calls explored alone
MaxCalls == 3
\* largest number of per-country lookups concatenated for create_report alone
MaxLookups == 3

----------------------------------------------------------------------------
(* Generic helpers. *)

\* All sequences over S of length at most n.
SeqUpTo(S, n) == UNION {[1..k -> S] : k \in 0..n}

\* dict.get(key, default)
Get(d, key, default) == IF key \in DOMAIN d THEN d[key] ELSE default

\* The empty dict {}.
EmptyDict == [k \in {} |-> ""]

\* sep.join(items) for a list of str.
RECURSIVE Join(_, _)
Join(sep, items) ==
    IF Len(items) = 0 THEN ""
    ELSE IF Len(items) = 1 THEN items[1]
    ELSE items[1] \o sep \o Join(sep, Tail(items))

\* Concatenation of a sequence of sequences.
RECURSIVE Flatten(_)
Flatten(ss) == IF Len(ss) = 0 THEN <<>> ELSE Head(ss) \o Flatten(Tail(ss))

\* pd.DataFrame(): no columns, no rows.
EmptyFrame == [columns |-> <<>>, rows |-> <<>>]

\* pd.DataFrame(list of dicts): the columns are the keys of the dicts in
\* order of appearance; an empty list gives the column-less empty frame.
\* Every list the program passes has dicts with the same keys, given as cols.
FrameOfDicts(cols, dicts) ==
    IF Len(dicts) = 0 THEN EmptyFrame ELSE [columns |-> cols, rows |-> dicts]

----------------------------------------------------------------------------
(* STAGE 1: scrape_site, lines 20-34. *)

\* A response to requests.get(url, timeout=10) followed by raise_for_status()
\* and by the parse of r.text:
\*   exc    <<message>> when requests.get or raise_for_status raised,
\*   title  <<text>> when the document has a <title>, else <<>>,
\*   meta   <<tag>> when it has <meta name="description">, the tag holding
\*          content |-> <<text>> or <<>> (no content attribute),
\*   nodes  the elements of the document in document order, each
\*          [tag, lead, text, trail]: its text is lead \o text \o trail with
\*          lead and trail the surrounding whitespace.
Response(exc, title, meta, nodes) ==
    [exc |-> exc, title |-> title, meta |-> meta, nodes |-> nodes]

\* item.get_text(strip=True)
get_text_strip(node) == node.text

\* soup.find_all(['h1', 'h2', 'h3'])
find_all_headings(nodes) == SelectSeq(nodes, LAMBDA n : n.tag \in {"h1", "h2", "h3"})

\* products_of with the cut to 10 made before the length filter.
products_cut_then_filter(nodes) ==
    LET hs == find_all_headings(nodes)
        cut == IF Len(hs) <= 10 THEN hs ELSE SubSeq(hs, 1, 10)
        kept == SelectSeq(cut, LAMBDA n : Len(get_text_strip(n)) > 5)
    IN  [i \in 1..Len(kept) |-> get_text_strip(kept[i])]

\* line 27: the list comprehension with its length filter
products_of(nodes) ==
    LET hs == find_all_headings(nodes)
        kept == SelectSeq(hs, LAMBDA n : Len(get_text_strip(n)) > 5)
    IN  [i \in 1..Len(kept) |-> get_text_strip(kept[i])]

\* products[:10]
FirstTen(s) == IF Len(s) <= 10 THEN s ELSE SubSeq(s, 1, 10)

scrape_site(r) ==
    IF r.exc # <<>>
    THEN ("error" :> ("Unable to scrape site: " \o r.exc[1]))
    ELSE ("Page Title" :> (IF r.title # <<>> THEN r.title[1] ELSE "No title found"))
      @@ ("Meta Description" :>
            (IF r.meta # <<>> /\ r.meta[1].content # <<>>
             THEN r.meta[1].content[1] ELSE "No description found"))
      @@ ("Product Headings" :> FirstTen(products_of(r.nodes)))

\* Heading elements used to build documents.
Node(tag, lead, text, trail) == [tag |-> tag, lead |-> lead, text |-> text, trail |-> trail]
ShortPadded == Node("h2", "  ", "About", " ")     \* 8 characters, 5 once trimmed
LongPlain   == Node("h1", "", "Chairs", "")        \* 6 characters
LongPadded  == Node("h3", " ", "Scooters", "")     \* 8 once trimmed
NotHeading  == Node("h4", "", "Walkers and rollators", "")
HeadingNodes == {ShortPadded, LongPlain, LongPadded}

\* Documents for scrape_site alone: every sequence of at most MaxNodes
\* heading elements, followed by up to MaxFill long headings.
ScrapeDocuments ==
    {Response(<<>>, <<"Acme Mobility">>, <<>>, ns \o [i \in 1..k |-> LongPadded]) :
        ns \in SeqUpTo(HeadingNodes, MaxNodes), k \in 0..MaxFill}

----------------------------------------------------------------------------
(* STAGE 2: suggest_markets, lines 37-52. *)

\* What the trade-data request met:
\*   exc     <<message>> when requests.get, raise_for_status or
\*           response.json() raised (network failure, HTTP error status,
\*           malformed JSON),
\*   object  <<dict>> when the JSON document is an object, <<>> when it is
\*           another JSON value (data.get then raises AttributeError).
TradeResponse(exc, object) == [exc |-> exc, object |-> object]

ComtradeUrl(product_term) ==
    "https://comtradeapi.un.org/public/v1/preview/C/A/2010/2022/TOTAL/"
        \o product_term \o "?fmt=json"

\* data.get("data", [])[:5]
FirstFive(s) == IF Len(s) <= 5 THEN s ELSE SubSeq(s, 1, 5)

\* lines 46-49: one parsed row per item
ParsedRow(item) ==
    ("Country" :> Get(item, "ptTitle", "N/A")) @@ ("Demand Score" :> Get(item, "rgDesc", "N/A"))

MarketColumns == <<"Country", "Demand Score">>

suggest_markets(product_term, resp) ==
    IF resp.exc # <<>>
    THEN FrameOfDicts(MarketColumns,
                      <<("Country" :> "Error") @@ ("Demand Score" :> resp.exc[1])>>)
    ELSE IF resp.object = <<>>
    THEN FrameOfDicts(MarketColumns,
                      <<("Country" :> "Error")
                        @@ ("Demand Score" :> "'list' object has no attribute 'get'")>>)
    ELSE LET items == FirstFive(Get(resp.object[1], "data", <<>>))
         IN  FrameOfDicts(MarketColumns, [i \in 1..Len(items) |-> ParsedRow(items[i])])

\* 'product_keywords or "Mobility equipment"', lines 76 and 140
TermOrDefault(keywords) == IF keywords = "" THEN "Mobility equipment" ELSE keywords

\* Entries of a 'data' list: with both fields, without ptTitle, without rgDesc,
\* and one whose partner title is the sentinel word "Exception".
TradeItems ==
    { ("ptTitle" :> "USA") @@ ("rgDesc" :> "Import"),
      ("ptTitle" :> "Mexico") @@ ("rgDesc" :> "Export"),
      ("rgDesc" :> "Import"),
      ("ptTitle" :> "Brazil") }
SentinelItem == ("ptTitle" :> "Exception") @@ ("rgDesc" :> "Import")

TradeFailures ==
    { TradeResponse(<<"Connection timed out">>, <<>>),
      TradeResponse(<<"401 Client Error: Access Denied">>, <<>>),
      TradeResponse(<<"Expecting value: line 1 column 1 (char 0)">>, <<>>),
      TradeResponse(<<>>, <<>>) }

\* Responses whose JSON object has no 'data', or a 'data' list of length <= n.
TradeObjects(items, n) ==
    {TradeResponse(<<>>, <<("count" :> "0")>>)}
    \cup {TradeResponse(<<>>, <<("data" :> d)>>) : d \in SeqUpTo(items, n)}

----------------------------------------------------------------------------
(* STAGE 3: the buyer source, lines 54-76. *)

\* lines 66-75
fetch_buyer_list(product_term) ==
    FrameOfDicts(<<"Company", "Country", "Contact">>,
      << ("Company" :> "ExportYeti Buyers Co.") @@ ("Country" :> "USA")
           @@ ("Contact" :> "contact@buyexportyeti.com"),
         ("Company" :> "Global Import Ventures") @@ ("Country" :> "Mexico")
           @@ ("Contact" :> "sales@globalimport.mx"),
         ("Company" :> "AsiaMed Devices") @@ ("Country" :> "Philippines")
           @@ ("Contact" :> "info@asiamed.ph") >>)

\* An uploaded file: pd.read_csv either returns frame or raises error.
CsvFile(parses, frame, error) == [parses |-> parses, frame |-> frame, error |-> error]

Entry(widget, body) == [widget |-> widget, body |-> body]
Op(op, arg) == [op |-> op, arg |-> arg]

\* buyer_source falling back to the mock table when the file does not parse.
buyer_source_with_fallback(file, keywords) ==
    IF file # <<>> /\ file[1].parses
    THEN [buyer_df |-> file[1].frame,
          page |-> <<Entry("dataframe", file[1].frame)>>,
          ops |-> <<Op("read_csv", "")>>]
    ELSE [buyer_df |-> fetch_buyer_list(TermOrDefault(keywords)),
          page |-> IF file # <<>>
                   THEN <<Entry("error", "Failed to read CSV: " \o file[1].error)>>
                   ELSE <<>>,
          ops |-> (IF file # <<>> THEN <<Op("read_csv", "")>> ELSE <<>>)
                  \o <<Op("fetch_buyer_list", TermOrDefault(keywords))>>]

\* lines 58-76: the new buyer_df, what is put on the page, the operations run
buyer_source(file, keywords) ==
    IF file # <<>>
    THEN IF file[1].parses
         THEN [buyer_df |-> file[1].frame,
               page |-> <<Entry("dataframe", file[1].frame)>>,
               ops |-> <<Op("read_csv", "")>>]
         ELSE [buyer_df |-> EmptyFrame,
               page |-> <<Entry("error", "Failed to read CSV: " \o file[1].error)>>,
               ops |-> <<Op("read_csv", "")>>]
    ELSE [buyer_df |-> fetch_buyer_list(TermOrDefault(keywords)),
          page |-> <<>>,
          ops |-> <<Op("fetch_buyer_list", TermOrDefault(keywords))>>]

----------------------------------------------------------------------------
(* STAGE 4: find_trusted_distributors, lines 79-88. *)

\* lines 81-85
trusted ==
    ("USA" :> <<"MedEquip USA", "Trusted Medical Supplies">>)
    @@ ("Mexico" :> <<"Distribuciones SaludMX", "Grupo Médico MX">>)
    @@ ("Philippines" :> <<"PhilMed Distributors", "Manila Health Corp">>)

\* find_trusted_distributors with trusted.get(country, []): no sentinel row.
find_trusted_distributors_no_sentinel(country) ==
    LET names == Get(trusted, country, <<>>)
    IN  [columns |-> <<"Distributor", "Country">>,
         rows |-> [i \in 1..Len(names) |->
                     ("Distributor" :> names[i]) @@ ("Country" :> country)]]

\* line 86: pd.DataFrame of a list column and a scalar column, the scalar
\* repeated on every row.  (The except branch is reached only by an
\* unhashable country; countries here are str.)
find_trusted_distributors(country) ==
    LET names == Get(trusted, country, <<"No trusted partners listed">>)
    IN  [columns |-> <<"Distributor", "Country">>,
         rows |-> [i \in 1..Len(names) |->
                     ("Distributor" :> names[i]) @@ ("Country" :> country)]]

\* line 147: the countries looked up, one per row of the market table that is
\* not a sentinel row
lookup_countries(df) ==
    LET kept == SelectSeq(df.rows, LAMBDA row : row["Country"] \notin {"Error", "Exception"})
    IN  [i \in 1..Len(kept) |-> kept[i]["Country"]]

\* An exception leaving a call: the workflow has no try, so it ends the render.
Raised(message) == [raised |-> message]
IsRaised(v) == "raised" \in DOMAIN v

\* pd.concat(frames, ignore_index=True) of frames with the same columns;
\* pd.concat of an empty list raises ValueError.
concat(frames) ==
    IF Len(frames) = 0 THEN Raised("No objects to concatenate")
    ELSE [columns |-> frames[1].columns,
          rows |-> Flatten([i \in 1..Len(frames) |-> frames[i].rows])]

\* line 148 without its guard: pd.concat on whatever list was built.
combine_unguarded(df_list) == concat(df_list)

\* line 148
combine(df_list) == IF Len(df_list) # 0 THEN concat(df_list) ELSE EmptyFrame

----------------------------------------------------------------------------
(* STAGE 5: create_report and download_link, lines 91-127. *)

\* The country names of the model in Python's str order (code points):
\* sorted() of the group keys, which DataFrame.groupby applies by default.
PythonOrder == <<"Brazil", "Mexico", "N/A", "Philippines", "USA">>

\* The keys of distributors_by_market.groupby("Country"), in iteration order.
groupby_keys(df) ==
    LET present == {df.rows[i]["Country"] : i \in 1..Len(df.rows)}
    IN  SelectSeq(PythonOrder, LAMBDA c : c \in present)

\* group["Distributor"] of one key: the rows of that key, in table order.
group_names(df, country) ==
    LET rows == SelectSeq(df.rows, LAMBDA row : row["Country"] = country)
    IN  [i \in 1..Len(rows) |-> rows[i]["Distributor"]]

\* lines 94-95: one section, as lines
dist_section(df, country) ==
    <<"**" \o country \o " Distributors:**">>
    \o [i \in 1..Len(group_names(df, country)) |-> "- " \o group_names(df, country)[i]]

\* "\n\n".join(sections), as lines: a blank line between sections; the
\* empty str (one empty line) when there is no section.
RECURSIVE join_sections(_)
join_sections(sections) ==
    IF Len(sections) = 0 THEN <<"">>
    ELSE IF Len(sections) = 1 THEN sections[1]
    ELSE sections[1] \o <<"">> \o join_sections(Tail(sections))

\* DataFrame.to_markdown(index=False), as lines: a header line, a separator
\* line and one line per row; the column-less frame renders as the empty
\* str.  Cells are not padded to the column width as tabulate pads them.
to_markdown(df) ==
    IF Len(df.columns) = 0 THEN <<"">>
    ELSE LET line(cells) == "| " \o Join(" | ", cells) \o " |"
             cellsOf(row) == [c \in 1..Len(df.columns) |-> row[df.columns[c]]]
         IN  <<line(df.columns),
               "|" \o Join("|", [c \in 1..Len(df.columns) |-> ":---"]) \o "|">>
             \o [r \in 1..Len(df.rows) |-> line(cellsOf(df.rows[r]))]

\* The indentation of the template's lines inside create_report.
Indent == "        "

\* A multi-line value substituted on a template line: its first line follows
\* the indentation, the others start at column 0.
Substituted(lines) == <<Indent \o lines[1]>> \o Tail(lines)

\* line 120
ReportFailed == "Report generation failed: "

create_report(brand_data, market_data, buyers, distributors_by_market) ==
    IF ~(\E c \in 1..Len(distributors_by_market.columns) :
            distributors_by_market.columns[c] = "Country")
    THEN \* groupby("Country") raises KeyError('Country'), caught on line 119
         <<ReportFailed \o "'Country'">>
    ELSE LET keys == groupby_keys(distributors_by_market)
             dist_sections == join_sections(
                 [k \in 1..Len(keys) |-> dist_section(distributors_by_market, keys[k])])
         IN  << "",
                Indent \o "## Export Opportunity Report",
                "",
                Indent \o "**Brand Title:** " \o Get(brand_data, "Page Title", "N/A"),
                "",
                Indent \o "**Meta Description:** " \o Get(brand_data, "Meta Description", "N/A"),
                "",
                Indent \o "### Sample Product Headings",
                Indent \o Join(", ", Get(brand_data, "Product Headings", <<>>)),
                "",
                Indent \o "### Top Markets" >>
             \o Substituted(to_markdown(market_data))
             \o << "", Indent \o "### Buyer Leads" >>
             \o Substituted(to_markdown(buyers))
             \o << "", Indent \o "### Trusted Distributors by Country" >>
             \o Substituted(dist_sections)
             \o << Indent >>

\* base64.b64encode(text.encode()).decode(): an injective encoding of the
\* text, kept symbolic.
b64encode(lines) == [base64_of |-> lines]

\* lines 122-127; str.encode does not raise on the texts of the model
download_link(object_to_download, download_filename, link_text) ==
    [href |-> "data:file/txt;base64,", payload |-> b64encode(object_to_download),
     download |-> download_filename, text |-> link_text]

----------------------------------------------------------------------------
(* scrape_site, suggest_markets, find_trusted_distributors and            *)
(* create_report each called on their own, on inputs drawn from bounded    *)
(* sets: pc is "call" before the call and "returned" after it.             *)

\* The state of a call about to be made: the inputs are drawn from the sets
\* given, everything else is as at the top of a render.
InitCall(Kw, W, T, S, M, B, D) ==
    /\ pc = "call"
    /\ brand_url = "https://acme.example"
    /\ product_keywords \in Kw
    /\ uploaded_file = <<>>
    /\ web \in W
    /\ trade \in T
    /\ site_info \in S
    /\ market_df \in M
    /\ buyer_df \in B
    /\ distributor_df_list = <<>>
    /\ distributors_df \in D
    /\ report_md = <<>>
    /\ dl_link = <<>>
    /\ page = <<>>
    /\ trace = <<>>

Keywords == {"", "wheelchair"}

\* scrape_site on any document of ScrapeDocuments.
InitScrape ==
    InitCall({""}, {<<r>> : r \in ScrapeDocuments}, {<<>>}, {<<>>}, {<<>>},
             {EmptyFrame}, {<<>>})

ScrapeCall ==
    /\ pc = "call"
    /\ site_info' = <<scrape_site(web[1])>>
    /\ trace' = Append(trace, Op("scrape_site", brand_url))
    /\ pc' = "returned"
    /\ UNCHANGED <<brand_url, product_keywords, uploaded_file, web, trade, market_df,
                   buyer_df, distributor_df_list, distributors_df, report_md,
                   dl_link, page>>

NextScrape == ScrapeCall

SpecScrape == InitScrape /\ [][NextScrape]_vars

\* suggest_markets on any outcome of the trade-data request.
MarketResponses == TradeFailures \cup TradeObjects(TradeItems, MaxItems)

InitMarkets ==
    InitCall(Keywords, {<<>>}, {<<t>> : t \in MarketResponses}, {<<>>}, {<<>>},
             {EmptyFrame}, {<<>>})

MarketsCall ==
    /\ pc = "call"
    /\ market_df' = <<suggest_markets(TermOrDefault(product_keywords), trade[1])>>
    /\ trace' = Append(trace, Op("suggest_markets", TermOrDefault(product_keywords)))
    /\ pc' = "returned"
    /\ UNCHANGED <<brand_url, product_keywords, uploaded_file, web, trade, site_info,
                   buyer_df, distributor_df_list, distributors_df, report_md,
                   dl_link, page>>

NextMarkets == MarketsCall

SpecMarkets == InitMarkets /\ [][NextMarkets]_vars

\* find_trusted_distributors called again and again, on any countries.
Countries == {"USA", "Mexico", "Philippines", "Brazil", "N/A"}

InitLookup ==
    InitCall({""}, {<<>>}, {<<>>}, {<<>>}, {<<>>}, {EmptyFrame}, {<<>>})

LookupCall ==
    /\ Len(trace) < MaxCalls
    /\ \E country \in Countries :
          /\ distributor_df_list' =
                Append(distributor_df_list, find_trusted_distributors(country))
          /\ trace' = Append(trace, Op("find_trusted_distributors", country))
    /\ UNCHANGED <<pc, brand_url, product_keywords, uploaded_file, web, trade,
                   site_info, market_df, buyer_df, distributors_df, report_md,
                   dl_link, page>>

NextLookup == LookupCall

SpecLookup == InitLookup /\ [][NextLookup]_vars

\* create_report on empty and non-empty arguments; the distributor table is
\* the column-less one or the concatenation of up to MaxLookups lookups.
AcmeSummary ==
    ("Page Title" :> "Acme Mobility") @@ ("Meta Description" :> "No description found")
    @@ ("Product Headings" :> <<"Chairs", "Scooters">>)

ErrorMarket ==
    FrameOfDicts(MarketColumns,
                 <<("Country" :> "Error") @@ ("Demand Score" :> "Connection timed out")>>)

LookupFrames(n) ==
    {combine([i \in 1..Len(cs) |-> find_trusted_distributors(cs[i])]) :
        cs \in SeqUpTo(Countries, n)}

InitReport ==
    InitCall({""}, {<<>>}, {<<>>}, {<<EmptyDict>>, <<AcmeSummary>>},
             {<<EmptyFrame>>, <<ErrorMarket>>},
             {EmptyFrame, fetch_buyer_list("Mobility equipment")},
             {<<d>> : d \in LookupFrames(MaxLookups)})

ReportCall ==
    /\ pc = "call"
    /\ report_md' = <<create_report(site_info[1], market_df[1], buyer_df, distributors_df[1])>>
    /\ trace' = Append(trace, Op("create_report", ""))
    /\ pc' = "returned"
    /\ UNCHANGED <<brand_url, product_keywords, uploaded_file, web, trade, site_info,
                   market_df, buyer_df, distributor_df_list, distributors_df,
                   dl_link, page>>

NextReport == ReportCall

SpecReport == InitReport /\ [][NextReport]_vars

----------------------------------------------------------------------------
(* The page render: the script from its first line to its last.            *)

Urls == {"", "https://acme.example"}

\* Uploaded files: two that parse (the second with another schema) and one
\* that does not.
LeadsCsv ==
    CsvFile(TRUE,
            FrameOfDicts(<<"Company", "Country", "Contact">>,
                         <<("Company" :> "Nordic Care AB") @@ ("Country" :> "Sweden")
                           @@ ("Contact" :> "inkop@nordiccare.se")>>),
            "")
NamesCsv ==
    CsvFile(TRUE,
            FrameOfDicts(<<"Name">>, <<("Name" :> "Medline"), ("Name" :> "Sunrise")>>),
            "")
BrokenCsv == CsvFile(FALSE, EmptyFrame, "No columns to parse from file")
Files == {<<>>, <<LeadsCsv>>, <<NamesCsv>>, <<BrokenCsv>>}

\* What the request for the brand URL can meet.
AcmePage ==
    Response(<<>>, <<"Acme Mobility">>, <<>>,
             <<LongPlain, ShortPadded, NotHeading, LongPadded,
               Node("h2", "", "Wheelchairs", " ")>>)
BarePage ==
    Response(<<>>, <<>>, <<[content |-> <<"Mobility aids since 1990">>]>>, <<>>)
NoContentPage ==
    Response(<<>>, <<"Acme">>, <<[content |-> <<>>]>>, <<ShortPadded>>)
WebResponses ==
    { Response(<<"Read timed out. (read timeout=10)">>, <<>>, <<>>, <<>>),
      Response(<<"404 Client Error: Not Found">>, <<>>, <<>>, <<>>),
      AcmePage, BarePage, NoContentPage }

\* What the trade-data request can meet inside a render.
RenderTradeResponses ==
    TradeFailures \cup TradeObjects(TradeItems \cup {SentinelItem}, MaxRenderItems)

\* The first load of the page: the text inputs are empty, no file is chosen.
Init ==
    /\ pc = "buyer_source"
    /\ brand_url = ""
    /\ product_keywords = ""
    /\ uploaded_file = <<>>
    /\ web = <<>>
    /\ trade = <<>>
    /\ site_info = <<>>
    /\ market_df = <<>>
    /\ buyer_df = EmptyFrame
    /\ distributor_df_list = <<>>
    /\ distributors_df = <<>>
    /\ report_md = <<>>
    /\ dl_link = <<>>
    /\ page = <<>>
    /\ trace = <<>>

\* lines 54-76, run at module level before the workflow
BuyerSource ==
    /\ pc = "buyer_source"
    /\ LET b == buyer_source(uploaded_file, product_keywords)
       IN  /\ buyer_df' = b.buyer_df
           /\ page' = page \o b.page
           /\ trace' = trace \o b.ops
    /\ pc' = "workflow"
    /\ UNCHANGED <<brand_url, product_keywords, uploaded_file, web, trade, site_info,
                   market_df, distributor_df_list, distributors_df, report_md, dl_link>>

\* line 130 with an empty brand_url: the workflow is skipped
NoUrl ==
    /\ pc = "workflow"
    /\ brand_url = ""
    /\ pc' = "footer"
    /\ UNCHANGED <<brand_url, product_keywords, uploaded_file, web, trade, site_info,
                   market_df, buyer_df, distributor_df_list, distributors_df,
                   report_md, dl_link, page, trace>>

\* The workflow going on whatever scrape_site returned.
after_scrape_unchecked(info) == "markets"

\* line 133: where the workflow goes once scrape_site has returned
after_scrape(info) == IF "error" \in DOMAIN info THEN "footer" ELSE "markets"

\* lines 130-137
Scrape ==
    /\ pc = "workflow"
    /\ brand_url # ""
    /\ \E r \in WebResponses :
          LET info == scrape_site(r)
          IN  /\ web' = <<r>>
              /\ site_info' = <<info>>
              /\ trace' = trace \o <<Op("requests.get", brand_url),
                                     Op("scrape_site", brand_url)>>
              /\ pc' = after_scrape(info)
              /\ page' = IF "error" \in DOMAIN info
                         THEN Append(page, Entry("error", info["error"]))
                         ELSE page \o <<Entry("subheader", "Brand Summary"),
                                        Entry("json", info)>>
    /\ UNCHANGED <<brand_url, product_keywords, uploaded_file, trade, market_df,
                   buyer_df, distributor_df_list, distributors_df, report_md, dl_link>>

\* lines 139-144
Markets ==
    /\ pc = "markets"
    /\ \E t \in RenderTradeResponses :
          LET term == TermOrDefault(product_keywords)
              df == suggest_markets(term, t)
          IN  /\ trade' = <<t>>
              /\ market_df' = <<df>>
              /\ trace' = trace \o <<Op("requests.get", ComtradeUrl(term)),
                                     Op("suggest_markets", term)>>
              /\ page' = page \o <<Entry("subheader", "Top Export Markets"),
                                   Entry("dataframe", df),
                                   Entry("subheader", "Buyer Leads"),
                                   Entry("dataframe", buyer_df)>>
    /\ pc' = "distributors"
    /\ UNCHANGED <<brand_url, product_keywords, uploaded_file, web, site_info,
                   buyer_df, distributor_df_list, distributors_df, report_md, dl_link>>

\* lines 146-149; an exception out of line 148 ends the render
Distributors ==
    /\ pc = "distributors"
    /\ LET cs == lookup_countries(market_df[1])
           df_list == [i \in 1..Len(cs) |-> find_trusted_distributors(cs[i])]
           df == combine(df_list)
       IN  /\ distributor_df_list' = df_list
           /\ trace' = trace \o [i \in 1..Len(cs) |->
                                   Op("find_trusted_distributors", cs[i])]
           /\ IF IsRaised(df)
              THEN /\ pc' = "crashed"
                   /\ page' = Append(page, Entry("subheader",
                                                 "Trusted Distributors in Top Markets"))
                   /\ UNCHANGED distributors_df
              ELSE /\ pc' = "report"
                   /\ distributors_df' = <<df>>
                   /\ page' = page \o <<Entry("subheader",
                                              "Trusted Distributors in Top Markets"),
                                        Entry("dataframe", df)>>
    /\ UNCHANGED <<brand_url, product_keywords, uploaded_file, web, trade, site_info,
                   market_df, buyer_df, report_md, dl_link>>

\* lines 151-153
Report ==
    /\ pc = "report"
    /\ LET md == create_report(site_info[1], market_df[1], buyer_df, distributors_df[1])
       IN  /\ report_md' = <<md>>
           /\ page' = page \o <<Entry("subheader", "Export Opportunity Report"),
                                Entry("markdown", md)>>
    /\ trace' = Append(trace, Op("create_report", ""))
    /\ pc' = "download"
    /\ UNCHANGED <<brand_url, product_keywords, uploaded_file, web, trade, site_info,
                   market_df, buyer_df, distributor_df_list, distributors_df, dl_link>>

\* lines 155-158
Download ==
    /\ pc = "download"
    /\ LET link == download_link(report_md[1], "export_report.md", "Download Full Report")
       IN  /\ dl_link' = <<link>>
           /\ page' = page \o <<Entry("markdown_html", link),
                                Entry("success",
                                      "Report generated using live and uploaded data!")>>
    /\ trace' = Append(trace, Op("download_link", "export_report.md"))
    /\ pc' = "footer"
    /\ UNCHANGED <<brand_url, product_keywords, uploaded_file, web, trade, site_info,
                   market_df, buyer_df, distributor_df_list, distributors_df, report_md>>

\* lines 160-162
Footer ==
    /\ pc = "footer"
    /\ page' = Append(page, Entry("footer", "Created as an EMC automation prototype."))
    /\ pc' = "done"
    /\ UNCHANGED <<brand_url, product_keywords, uploaded_file, web, trade, site_info,
                   market_df, buyer_df, distributor_df_list, distributors_df,
                   report_md, dl_link, trace>>

\* The user changes an input: the framework runs the script again from the
\* top; nothing of the previous render is kept.
Rerun ==
    /\ pc \in {"done", "crashed"}
    /\ pc' = "buyer_source"
    /\ brand_url' \in Urls
    /\ product_keywords' \in Keywords
    /\ uploaded_file' \in Files
    /\ web' = <<>>
    /\ trade' = <<>>
    /\ site_info' = <<>>
    /\ market_df' = <<>>
    /\ buyer_df' = EmptyFrame
    /\ distributor_df_list' = <<>>
    /\ distributors_df' = <<>>
    /\ report_md' = <<>>
    /\ dl_link' = <<>>
    /\ page' = <<>>
    /\ trace' = <<>>

\* One step of the script.
RenderStep ==
    BuyerSource \/ NoUrl \/ Scrape \/ Markets \/ Distributors \/ Report \/ Download \/ Footer

Next == RenderStep \/ Rerun

Spec == Init /\ [][Next]_vars

\* The script is synchronous and each request has a 10 s timeout: a render
\* that has started runs on to its end.
FairSpec == Spec /\ WF_vars(RenderStep)

----------------------------------------------------------------------------
(* Vocabulary of the properties.                                           *)

Ran(op) == \E i \in 1..Len(trace) : trace[i].op = op
Calls(op, arg) == {i \in 1..Len(trace) : trace[i].op = op /\ trace[i].arg = arg}
HasLine(lines, text) == \E i \in 1..Len(lines) : lines[i] = text
IsScrapeError == site_info # <<>> /\ "error" \in DOMAIN site_info[1]
IsScrapeOk == site_info # <<>> /\ "error" \notin DOMAIN site_info[1]
ParseFailed == uploaded_file # <<>> /\ ~uploaded_file[1].parses
TradeRequest == ComtradeUrl(TermOrDefault(product_keywords))

\* The operations of the buyer source, and those of stages 2, 4 and 5.
IsBuyerOp(e) == e.op \in {"read_csv", "fetch_buyer_list"}
IsDownstreamOp(e) ==
    \/ e.op \in {"suggest_markets", "find_trusted_distributors", "create_report",
                 "download_link"}
    \/ e.op = "requests.get" /\ e.arg = TradeRequest
AfterScrape(i) == \E j \in 1..(i - 1) : trace[j].op = "scrape_site"

----------------------------------------------------------------------------
(* C1 *)

\* C1, as stated: scrape_site gates every operation of stages 2-5, the buyer
\* source included: none runs before scrape_site has returned, and on a
\* scrape error none runs at all and only the error message is on the page.
C1_ScrapeGatesEverything ==
    /\ brand_url # "" =>
          \A i \in 1..Len(trace) :
             (IsBuyerOp(trace[i]) \/ IsDownstreamOp(trace[i])) => AfterScrape(i)
    /\ IsScrapeError =>
          /\ \A i \in 1..Len(trace) : ~IsBuyerOp(trace[i]) /\ ~IsDownstreamOp(trace[i])
          /\ \A i \in 1..Len(page) : page[i].widget \in {"error", "footer"}

\* C1, amended: the buyer source (file parse or mock buyer fetch) runs at the
\* top of every render, before scrape_site and whatever scrape_site returns;
\* scrape_site gates the rest: no market query, distributor lookup, report
\* composition or download-link encoding runs before scrape_site has
\* returned, and on a scrape error none of them runs in that render and the
\* page shows, after what the buyer source displayed, only the error message.
C1_ScrapeGatesWorkflow ==
    /\ \A i \in 1..Len(trace) : IsDownstreamOp(trace[i]) => AfterScrape(i)
    /\ pc # "buyer_source" =>
          /\ Len(trace) >= 1 /\ IsBuyerOp(trace[1])
          /\ \A i \in 2..Len(trace) : ~IsBuyerOp(trace[i])
    /\ IsScrapeError =>
          /\ \A i \in 1..Len(trace) : ~IsDownstreamOp(trace[i])
          /\ pc \in {"footer", "done"}
          /\ LET shown == buyer_source(uploaded_file, product_keywords).page
                 rest == SubSeq(page, Len(shown) + 1, Len(page))
             IN  /\ Len(rest) >= 1
                 /\ rest[1].widget = "error" /\ rest[1].body = site_info[1]["error"]
                 /\ \A i \in 2..Len(rest) : rest[i].widget = "footer"

\* A render whose scrape failed has ended, the buyer source having run.
C1_Witness ==
    /\ pc = "done"
    /\ IsScrapeError
    /\ Ran("read_csv")

----------------------------------------------------------------------------
(* C2 *)

SectionHeaders ==
    { Indent \o "## Export Opportunity Report",
      Indent \o "### Sample Product Headings",
      Indent \o "### Top Markets",
      Indent \o "### Buyer Leads",
      Indent \o "### Trusted Distributors by Country" }

IsFailedReport(lines) == lines = <<ReportFailed \o "'Country'">>

\* C2: create_report given an empty summary, an empty market table, an
\* empty buyer table and the column-less distributor table returns a report
\* with the fixed section headers, not the 'Report generation failed' message.
C2_EmptyInputsGiveHeaders ==
    ( /\ pc = "returned"
      /\ report_md # <<>>
      /\ DOMAIN site_info[1] = {}
      /\ market_df[1] = EmptyFrame
      /\ buyer_df = EmptyFrame
      /\ distributors_df[1] = EmptyFrame )
    => /\ \A h \in SectionHeaders : HasLine(report_md[1], h)
       /\ ~IsFailedReport(report_md[1])

----------------------------------------------------------------------------
(* C3 *)

MarketFailed ==
    /\ market_df # <<>>
    /\ Len(market_df[1].rows) = 1
    /\ market_df[1].rows[1]["Country"] = "Error"

\* C3: when the scrape succeeds, no file is uploaded and the market query
\* fails, no distributor lookup runs and the report displayed and offered
\* for download shows the title, the description, the joined headings, the
\* error row of the market table and the 3 mock buyers; it is not replaced
\* by an error message.
C3_MarketFailureStillReports ==
    (pc = "done" /\ IsScrapeOk /\ uploaded_file = <<>> /\ MarketFailed)
    => /\ ~Ran("find_trusted_distributors")
       /\ report_md # <<>> /\ dl_link # <<>>
       /\ dl_link[1].payload = b64encode(report_md[1])
       /\ \E i \in 1..Len(page) : page[i].widget = "markdown" /\ page[i].body = report_md[1]
       /\ ~IsFailedReport(report_md[1])
       /\ HasLine(report_md[1], Indent \o "**Brand Title:** " \o site_info[1]["Page Title"])
       /\ HasLine(report_md[1],
                  Indent \o "**Meta Description:** " \o site_info[1]["Meta Description"])
       /\ HasLine(report_md[1], Indent \o Join(", ", site_info[1]["Product Headings"]))
       /\ HasLine(report_md[1],
                  "| Error | " \o market_df[1].rows[1]["Demand Score"] \o " |")
       /\ \A r \in 1..3 :
             \E i \in 1..Len(report_md[1]) :
                report_md[1][i] = to_markdown(fetch_buyer_list(""))[r + 2]

----------------------------------------------------------------------------
(* C4 *)

TradeFailed == trade[1].exc # <<>> \/ trade[1].object = <<>>

\* C4: whatever the trade-data request met, suggest_markets returns a table
\* of at most 5 rows and exactly the columns Country and Demand Score; on a
\* failure the table has exactly 1 row, with Country = 'Error'.
C4_MarketTableShape ==
    (pc = "returned" /\ market_df # <<>>)
    => /\ Len(market_df[1].rows) <= 5
       /\ market_df[1].columns = <<"Country", "Demand Score">>
       /\ TradeFailed => /\ Len(market_df[1].rows) = 1
                         /\ market_df[1].rows[1]["Country"] = "Error"

----------------------------------------------------------------------------
(* C5 *)

\* The countries of the market table, its sentinel rows left out.
MarketCountries ==
    {market_df[1].rows[i]["Country"] : i \in 1..Len(market_df[1].rows)}
        \ {"Error", "Exception"}

\* C5: find_trusted_distributors is invoked exactly once per distinct
\* country of the market table (sentinel rows excluded), so the combined
\* table holds each country's distributors once.
C5_OneLookupPerCountry ==
    distributors_df # <<>>
    => \A c \in MarketCountries :
          /\ Cardinality(Calls("find_trusted_distributors", c)) = 1
          /\ SelectSeq(distributors_df[1].rows, LAMBDA row : row["Country"] = c)
                = find_trusted_distributors(c).rows

----------------------------------------------------------------------------
(* C6 *)

GroupHeading(c) == "**" \o c \o " Distributors:**"
IsHeadingOf(line, c) == line = GroupHeading(c) \/ line = Indent \o GroupHeading(c)
HeadingAt(lines, c) == CHOOSE i \in 1..Len(lines) : IsHeadingOf(lines[i], c)
FirstRowOf(df, c) ==
    CHOOSE i \in 1..Len(df.rows) :
        /\ df.rows[i]["Country"] = c
        /\ \A j \in 1..(i - 1) : df.rows[j]["Country"] # c
TableCountries(df) == {df.rows[i]["Country"] : i \in 1..Len(df.rows)}

\* C6: the distributor section of the report has one group per country of
\* the combined table, a heading followed by one bullet per distributor of
\* that country, the groups in the order of each country's first appearance
\* in the table.
C6_GroupsInFirstAppearanceOrder ==
    (pc = "returned" /\ report_md # <<>> /\ distributors_df[1] # EmptyFrame)
    => LET df == distributors_df[1]
           lines == report_md[1]
       IN  /\ \A c \in TableCountries(df) :
                 /\ Cardinality({i \in 1..Len(lines) : IsHeadingOf(lines[i], c)}) = 1
                 /\ LET names == group_names(df, c)
                    IN  \A k \in 1..Len(names) :
                           /\ HeadingAt(lines, c) + k <= Len(lines)
                           /\ lines[HeadingAt(lines, c) + k] = "- " \o names[k]
           /\ \A c1, c2 \in TableCountries(df) :
                 FirstRowOf(df, c1) < FirstRowOf(df, c2)
                    => HeadingAt(lines, c1) < HeadingAt(lines, c2)

----------------------------------------------------------------------------
(* C7 *)

MockBuyers == fetch_buyer_list("Mobility equipment")
MockBuyerLine(r) == to_markdown(MockBuyers)[r + 2]

\* The table shown under the 'Buyer Leads' subheader is df.
BuyerLeadsShow(df) ==
    \A i \in 2..Len(page) :
       ( /\ page[i - 1].widget = "subheader"
         /\ page[i - 1].body = "Buyer Leads" )
       => page[i].widget = "dataframe" /\ page[i].body = df

\* C7: when an uploaded file does not parse, an inline error is shown and
\* the buyer table displayed and reported is empty: fetch_buyer_list is not
\* called in that render and no mock buyer is in the report.  The mock table
\* is used only when no file is supplied.
C7_NoMockFallback ==
    /\ (pc # "buyer_source" /\ ParseFailed) =>
          /\ Len(page) >= 1
          /\ page[1].widget = "error"
          /\ page[1].body = "Failed to read CSV: " \o uploaded_file[1].error
          /\ buyer_df = EmptyFrame
          /\ ~Ran("fetch_buyer_list")
          /\ BuyerLeadsShow(EmptyFrame)
          /\ report_md # <<>> =>
                /\ \A r \in 1..3 : ~HasLine(report_md[1], MockBuyerLine(r))
                /\ ~IsFailedReport(report_md[1]) =>
                      \E i \in 1..(Len(report_md[1]) - 2) :
                         /\ report_md[1][i] = Indent \o "### Buyer Leads"
                         /\ report_md[1][i + 1] = Indent
                         /\ report_md[1][i + 2] = ""
    /\ Ran("fetch_buyer_list") => uploaded_file = <<>>
    /\ (pc # "buyer_source" /\ buyer_df = MockBuyers) => uploaded_file = <<>>
    /\ (pc # "buyer_source" /\ uploaded_file = <<>>) => buyer_df = MockBuyers

\* A render with a file that did not parse has composed a full report.
C7_Witness ==
    /\ pc = "done"
    /\ ParseFailed
    /\ report_md # <<>>
    /\ ~IsFailedReport(report_md[1])

----------------------------------------------------------------------------
(* C8 *)

C8_Safety ==
    /\ pc # "crashed"
    /\ Cardinality(Calls("requests.get", brand_url)) <= 1
    /\ Cardinality(Calls("requests.get", TradeRequest)) <= 1
    /\ (trade # <<>> /\ TradeFailed) => MarketFailed
    /\ (pc = "done" /\ IsScrapeOk) =>
          /\ Cardinality(Calls("requests.get", brand_url)) = 1
          /\ Cardinality(Calls("requests.get", TradeRequest)) = 1
          /\ Cardinality(Calls("create_report", "")) = 1
          /\ Cardinality(Calls("download_link", "export_report.md")) = 1
          /\ report_md # <<>>
          /\ dl_link # <<>>
          /\ dl_link[1].payload = b64encode(report_md[1])

RenderComplete == pc = "done" /\ IsScrapeOk /\ report_md # <<>> /\ dl_link # <<>>

----------------------------------------------------------------------------
(* C9 *)

ExpectedNames(country) ==
    CASE country = "USA" -> <<"MedEquip USA", "Trusted Medical Supplies">>
      [] country = "Mexico" -> <<"Distribuciones SaludMX", "Grupo Médico MX">>
      [] country = "Philippines" -> <<"PhilMed Distributors", "Manila Health Corp">>
      [] OTHER -> <<"No trusted partners listed">>

\* C9: each call of find_trusted_distributors returns, for USA, Mexico and
\* the Philippines, the country's fixed ordered list of names, each row
\* paired with the country, and for any other country one row 'No trusted
\* partners listed' paired with the country asked for; a call with the same
\* country, after any other calls, returns the same table.
C9_LookupIsFixed ==
    /\ Len(distributor_df_list) = Len(trace)
    /\ \A i \in 1..Len(trace) :
          LET c == trace[i].arg
              t == distributor_df_list[i]
          IN  /\ t.columns = <<"Distributor", "Country">>
              /\ Len(t.rows) = Len(ExpectedNames(c))
              /\ \A k \in 1..Len(t.rows) :
                    /\ DOMAIN t.rows[k] = {"Distributor", "Country"}
                    /\ t.rows[k]["Distributor"] = ExpectedNames(c)[k]
                    /\ t.rows[k]["Country"] = c
    /\ \A i, j \in 1..Len(trace) :
          trace[i].arg = trace[j].arg => distributor_df_list[i] = distributor_df_list[j]

\* A known country looked up, then an unknown one, then the known one again.
C9_Witness ==
    \E i, j, k \in 1..Len(trace) :
       /\ i < j /\ j < k
       /\ trace[i].arg = "USA" /\ trace[j].arg = "Brazil" /\ trace[k].arg = "USA"

----------------------------------------------------------------------------
(* C10 *)

Qualifies(node) == node.tag \in {"h1", "h2", "h3"} /\ Len(node.text) > 5
QualifyingAt(nodes) == {i \in 1..Len(nodes) : Qualifies(nodes[i])}
\* The number of qualifying headings among the first i elements.
RankAt(nodes, i) == Cardinality({j \in 1..i : Qualifies(nodes[j])})
Smaller(a, b) == IF a <= b THEN a ELSE b

\* C10: the headings returned are the first 10 (or all, if fewer) of the
\* h1/h2/h3 texts longer than 5 characters once trimmed, in document order:
\* the filter comes before the cut, and there are never more than 10.
C10_FirstTenQualifying ==
    (pc = "returned" /\ IsScrapeOk)
    => LET nodes == web[1].nodes
           got == site_info[1]["Product Headings"]
       IN  /\ Len(got) <= 10
           /\ Len(got) = Smaller(10, Cardinality(QualifyingAt(nodes)))
           /\ \A k \in 1..Len(got) : Len(got[k]) > 5
           /\ \A i \in QualifyingAt(nodes) :
                 RankAt(nodes, i) <= 10 =>
                    /\ RankAt(nodes, i) <= Len(got)
                    /\ got[RankAt(nodes, i)] = nodes[i].text

\* A document with more than 10 qualifying headings and a short one among
\* its first 10 elements has been scraped.
C10_Witness ==
    /\ pc = "returned"
    /\ IsScrapeOk
    /\ Cardinality(QualifyingAt(web[1].nodes)) > 10
    /\ \E i \in 1..10 : web[1].nodes[i] = ShortPadded
    /\ Len(site_info[1]["Product Headings"]) = 10

====
